---------------------------- MODULE Spec2Model ----------------------------
(***************************************************************************)
(* A model of the bspump pipeline runtime (bspump/pipeline.py): the        *)
(* readiness / throttle machinery, the error state, the chain walker and   *)
(* the generator expansion, run by several sources on one asyncio loop.    *)
(*                                                                         *)
(* One asyncio task runs at a time.  `running` names the source whose      *)
(* process() coroutine currently owns the loop (0 when the loop is free);  *)
(* a coroutine gives the loop back only at an await that really suspends.  *)
(***************************************************************************)
EXTENDS Integers, Sequences, FiniteSets, TLC

\* ---------------------------------------------------------------- bounds
NSources == 2      \* sources of the pipeline
MaxEvents == 2     \* process() calls that are counted in (cap of event.in)
MaxFan == 2        \* longest lazy sequence a processor returns
MaxChain == 2      \* longest list of processors handed to build()
MaxTime == 1       \* latest reading of the application clock
MaxObjects == 2    \* objects with the same Id that are handed to the service
MaxAddr == 4       \* longest address handed to locate()
MaxSessions == 3   \* sessions that are added to the SessionAnalyzer

\* ------------------------------------------------------ program constants
chillout_trigger == 2   \* Pipeline._chillout_trigger, scaled down from 10000
WalkerArgs == 2         \* _do_process calls processor.process(context, event)
TeeParams == 1          \* TeeProcessor.process(self, event)

\* ------------------------------------------------------------ vocabulary
None == "None"
SourceIds == 1..NSources
Tokens == {"sink", "other"}            \* who-tokens handed to throttle()
Kinds == {"Processor", "Generator", "Sink"}
\* the context argument of process(): absent (None) or a dict of the caller
CallerContexts == {[given |-> FALSE, keys |-> {}], [given |-> TRUE, keys |-> {"caller"}]}
Exceptions == {"ExcHard", "ExcSoft"}   \* what a processor may raise

VARIABLES
    pipeline,   \* the fields of the Pipeline object
    task,       \* per source: where its process() coroutine stands
    running,    \* the source whose coroutine owns the event loop, or 0
    now,        \* App.time(): the latest reading of the clock
    started,    \* start() has been called
    env,        \* the deployment: who throttles, what the sources pass, ...
    last,       \* what the latest operation did (observation only)
    service,    \* the BSPumpService: its registries and its initialize()
    analyzer    \* a SessionAnalyzer: its session matrix and its row maps

vars == <<pipeline, task, running, now, started, env, last, service, analyzer>>


\* ------------------------------------------------------------------ events
\* An event is an opaque value; the model keeps its identity and whether it
\* is a generator object (types.GeneratorType) yielding n sub-events.
Event(id) == [id |-> id, lazy |-> FALSE, n |-> 0]
Lazy(id, n) == [id |-> id, lazy |-> TRUE, n |-> n]
SubEvent(gen, j) == Event(Append(gen.id, j))
NoEvent == Event(<<>>)       \* the event argument None
NoError == <<>>              \* Pipeline._error is None

\* What locate() returns: None, a pipeline, or the stage of pipeline `n` at
\* position `idx` of its sources or of level `level` of its processors.
Located(kind, n, level, idx) == [kind |-> kind, n |-> n, level |-> level, idx |-> idx]
Nothing == Located("None", 0, 0, 0)

\* ---------------------------------------------------------- TeeProcessor
\* copy.deepcopy(event): an equal event that is another object
DeepCopy(event) == [id |-> event.id, lazy |-> event.lazy, n |-> event.n, copy |-> TRUE]

\* TeeProcessor.__init__; `Queue` is the queue of the InternalSource that
\* `target` names, the one `Source` refers to once start() has found it.
NewTee == [target |-> <<>>, Source |-> Nothing, Queue |-> <<>>]

\* processor.process(*args) for a TeeProcessor, called with `args` positional
\* arguments: a call that does not fit `def process(self, event)` raises
\* TypeError before the body runs.
TeeProcess(tee, args, event) ==
    IF args # TeeParams THEN [tee |-> tee, exc |-> "TypeError"]
    ELSE IF tee.Source = Nothing THEN [tee |-> tee, exc |-> "AttributeError"]
    ELSE [tee |-> [tee EXCEPT !.Queue = Append(@, DeepCopy(event))], exc |-> None]

\* ------------------------------------------------- Pipeline: construction
RECURSIVE Build(_, _)
Build(levels, processors) ==
    IF processors = <<>> THEN levels
    ELSE LET processor == Head(processors)
             appended == [levels EXCEPT ![Len(levels)] = Append(@, processor)]
         IN Build(IF processor = "Generator" THEN Append(appended, <<>>)
                                              ELSE appended,
                  Tail(processors))

Counter0 ==
    [event_in |-> 0, event_out |-> 0, event_drop |-> 0, warning |-> 0, error |-> 0]

NewPipeline(sources, processors) ==
    [Sources          |-> sources,
     Processors       |-> Build(<< <<>> >>, processors),
     counter          |-> Counter0,
     dutycycle        |-> FALSE,
     error            |-> NoError,
     throttles        |-> {},
     ready            |-> FALSE,     \* asyncio.Event: its flag
     waiters          |-> {},        \* asyncio.Event: tasks blocked in wait()
     woken            |-> {},        \* asyncio.Event: waiters released by set()
     chillout_counter |-> 0,
     context          |-> {},
     tee              |-> NewTee,    \* its TeeProcessor, if the chain has one
     published        |-> <<>>,      \* PubSub messages of the latest operation
     restarts         |-> [s \in SourceIds |-> 0]]  \* restart() calls of the latest operation

\* What an operation starts from: the observation of the previous one is gone.
Begin(p) == [p EXCEPT !.published = <<>>, !.restarts = [s \in SourceIds |-> 0]]

Publish(p, message) == [p EXCEPT !.published = Append(@, message)]

\* ---------------------------------------------------- Pipeline: readiness
is_error(p) == p.error # NoError

is_ready(p) == p.ready

\* readiness that forgets the throttle set
EvaluateReady_unthrottled(p) ==
    LET orig_ready == is_ready(p)
        new_ready == p.error = NoError
    IN IF orig_ready # new_ready
       THEN IF new_ready
            THEN [Publish(p, "bspump.pipeline.ready!") EXCEPT
                     !.ready = TRUE, !.woken = @ \cup p.waiters, !.waiters = {},
                     !.dutycycle = TRUE]
            ELSE [Publish(p, "bspump.pipeline.not_ready!") EXCEPT
                     !.ready = FALSE, !.dutycycle = FALSE]
       ELSE p

\* a flag that is raised without releasing the tasks blocked in wait()
EvaluateReady_nowake(p) ==
    LET orig_ready == is_ready(p)
        new_ready == IF p.error = NoError THEN Cardinality(p.throttles) = 0 ELSE FALSE
    IN IF orig_ready # new_ready
       THEN IF new_ready
            THEN [Publish(p, "bspump.pipeline.ready!") EXCEPT
                     !.ready = TRUE, !.dutycycle = TRUE]
            ELSE [Publish(p, "bspump.pipeline.not_ready!") EXCEPT
                     !.ready = FALSE, !.dutycycle = FALSE]
       ELSE p

\* a readiness that is announced at every evaluation, changed or not
EvaluateReady_level(p) ==
    LET new_ready == IF p.error = NoError THEN Cardinality(p.throttles) = 0 ELSE FALSE
    IN IF new_ready
       THEN [Publish(p, "bspump.pipeline.ready!") EXCEPT
                !.ready = TRUE, !.woken = @ \cup p.waiters, !.waiters = {},
                !.dutycycle = TRUE]
       ELSE [Publish(p, "bspump.pipeline.not_ready!") EXCEPT
                !.ready = FALSE, !.dutycycle = FALSE]

EvaluateReady(p) ==
    LET orig_ready == is_ready(p)
        new_ready == IF p.error = NoError THEN Cardinality(p.throttles) = 0 ELSE FALSE
    IN IF orig_ready # new_ready
       THEN IF new_ready
            THEN [Publish(p, "bspump.pipeline.ready!") EXCEPT
                     !.ready = TRUE, !.woken = @ \cup p.waiters, !.waiters = {},
                     !.dutycycle = TRUE]
            ELSE [Publish(p, "bspump.pipeline.not_ready!") EXCEPT
                     !.ready = FALSE, !.dutycycle = FALSE]
       ELSE p

\* The subclass hook: TRUE for a hard error, FALSE for a soft one.
CatchError(exc, event) == exc # "ExcSoft"

\* a hard error that is stored without evaluating readiness
SetError_unevaluated(p, context, event, exc, t) ==
    IF exc = None
    THEN IF p.error # NoError
         THEN LET cleared == [p EXCEPT !.error = NoError,
                                       !.restarts = [s \in SourceIds |->
                                           IF s \in p.Sources THEN @[s] + 1 ELSE @[s]]]
              IN EvaluateReady(Publish(cleared, "bspump.pipeline.clear_error!"))
         ELSE p
    ELSE IF ~CatchError(exc, event)
         THEN Publish([p EXCEPT !.counter.warning = @ + 1], "bspump.pipeline.warning!")
         ELSE Publish([p EXCEPT !.error = <<context, event, exc, t>>],
                      "bspump.pipeline.error!")

\* a recovery that restarts the first source only
SetError_onesource(p, context, event, exc, t) ==
    IF exc = None
    THEN IF p.error # NoError
         THEN LET cleared == [p EXCEPT !.error = NoError,
                                       !.restarts = [s \in SourceIds |->
                                           IF s \in p.Sources /\ s = 1 THEN @[s] + 1 ELSE @[s]]]
              IN EvaluateReady(Publish(cleared, "bspump.pipeline.clear_error!"))
         ELSE p
    ELSE IF ~CatchError(exc, event)
         THEN Publish([p EXCEPT !.counter.warning = @ + 1], "bspump.pipeline.warning!")
         ELSE LET faulted == [p EXCEPT !.error = <<context, event, exc, t>>]
              IN EvaluateReady(Publish(faulted, "bspump.pipeline.error!"))

\* a soft error that goes on to the statement after the return
SetError_counted(p, context, event, exc, t) ==
    IF exc = None
    THEN IF p.error # NoError
         THEN LET cleared == [p EXCEPT !.error = NoError,
                                       !.restarts = [s \in SourceIds |->
                                           IF s \in p.Sources THEN @[s] + 1 ELSE @[s]]]
              IN EvaluateReady(Publish(cleared, "bspump.pipeline.clear_error!"))
         ELSE p
    ELSE IF ~CatchError(exc, event)
         THEN Publish([p EXCEPT !.counter.warning = @ + 1, !.counter.error = @ + 1],
                      "bspump.pipeline.warning!")
         ELSE LET faulted == [p EXCEPT !.error = <<context, event, exc, t>>]
              IN EvaluateReady(Publish(faulted, "bspump.pipeline.error!"))

\* a hard error that is tallied in the error counter
SetError_tallied(p, context, event, exc, t) ==
    IF exc = None
    THEN IF p.error # NoError
         THEN LET cleared == [p EXCEPT !.error = NoError,
                                       !.restarts = [s \in SourceIds |->
                                           IF s \in p.Sources THEN @[s] + 1 ELSE @[s]]]
              IN EvaluateReady(Publish(cleared, "bspump.pipeline.clear_error!"))
         ELSE p
    ELSE IF ~CatchError(exc, event)
         THEN Publish([p EXCEPT !.counter.warning = @ + 1], "bspump.pipeline.warning!")
         ELSE LET faulted == [p EXCEPT !.error = <<context, event, exc, t>>,
                                       !.counter.error = @ + 1]
              IN EvaluateReady(Publish(faulted, "bspump.pipeline.error!"))

\* a reset that does not look whether an error is set
SetError_reset(p, context, event, exc, t) ==
    IF exc = None
    THEN LET cleared == [p EXCEPT !.error = NoError,
                                  !.restarts = [s \in SourceIds |->
                                      IF s \in p.Sources THEN @[s] + 1 ELSE @[s]]]
         IN EvaluateReady(Publish(cleared, "bspump.pipeline.clear_error!"))
    ELSE IF ~CatchError(exc, event)
         THEN Publish([p EXCEPT !.counter.warning = @ + 1], "bspump.pipeline.warning!")
         ELSE LET faulted == [p EXCEPT !.error = <<context, event, exc, t>>]
              IN EvaluateReady(Publish(faulted, "bspump.pipeline.error!"))

SetError(p, context, event, exc, t) ==
    IF exc = None
    THEN IF p.error # NoError
         THEN LET cleared == [p EXCEPT !.error = NoError,
                                       !.restarts = [s \in SourceIds |->
                                           IF s \in p.Sources THEN @[s] + 1 ELSE @[s]]]
              IN EvaluateReady(Publish(cleared, "bspump.pipeline.clear_error!"))
         ELSE p
    ELSE IF ~CatchError(exc, event)
         THEN Publish([p EXCEPT !.counter.warning = @ + 1], "bspump.pipeline.warning!")
         ELSE LET faulted == [p EXCEPT !.error =
                                 <<context, event, exc, t>>]
              IN EvaluateReady(Publish(faulted, "bspump.pipeline.error!"))

\* throttle(): set.remove() of an absent token raises KeyError before
\* readiness is evaluated.
Throttle(p, who, enable) ==
    IF enable
    THEN [p |-> EvaluateReady([p EXCEPT !.throttles = @ \cup {who}]), exc |-> None]
    ELSE IF who \in p.throttles
         THEN [p |-> EvaluateReady([p EXCEPT !.throttles = @ \ {who}]), exc |-> None]
         ELSE [p |-> p, exc |-> "KeyError"]

\* throttle() called for each flag of `enables` in turn by synchronous code;
\* an exception ends the sequence. `done` counts the calls that returned.
RECURSIVE ThrottleAll(_, _, _, _)
ThrottleAll(p, who, enables, i) ==
    IF i > Len(enables) THEN [p |-> p, exc |-> None, done |-> i - 1]
    ELSE LET r == Throttle(p, who, enables[i])
         IN IF r.exc # None THEN [p |-> r.p, exc |-> r.exc, done |-> i - 1]
            ELSE ThrottleAll(r.p, who, enables, i + 1)

StartPipeline(p) == EvaluateReady(Publish(p, "bspump.pipeline.start!"))


\* ------------------------------------------------ Pipeline: chain walker
\* What one call of processor.process(context, event) does.
Pass == [kind |-> "event", n |-> 0, exc |-> None, throttle |-> FALSE]
Tee == [kind |-> "tee", n |-> 0, exc |-> None, throttle |-> FALSE]
Outcomes(processor, last_of_level) ==
    LET raises == {[kind |-> "raise", n |-> 0, exc |-> x, throttle |-> FALSE] : x \in env.raises}
        drops == {[kind |-> "none", n |-> 0, exc |-> None, throttle |-> FALSE]}
        fans == {[kind |-> "lazy", n |-> k, exc |-> None, throttle |-> FALSE] : k \in 0..MaxFan}
    IN CASE processor = "Sink" ->
               raises \cup {[kind |-> "none", n |-> 0, exc |-> None, throttle |-> b] : b \in BOOLEAN}
         [] processor = "Tee" -> {Tee}
         [] processor = "Generator" -> raises \cup fans
         [] OTHER -> raises \cup drops \cup {Pass} \cup (IF last_of_level THEN fans ELSE {})

\* The runs of one chain level: the processors before the one that ends the
\* walk hand the event on; what the later ones would do is never asked.
OutSeqs(level) ==
    UNION {{[i \in 1..stop |-> IF i = stop THEN o
                               ELSE IF level[i] = "Tee" THEN Tee ELSE Pass] :
                o \in Outcomes(level[stop], stop = Len(level))
                         \ (IF stop < Len(level) THEN {Pass} ELSE {})} :
           stop \in {k \in 1..Len(level) :
                        /\ \A i \in 1..(k - 1) : level[i] \in {"Processor", "Tee"}
                        /\ level[k] = "Tee" => k = Len(level)}}
    \cup (IF level = <<>> THEN {<<>>} ELSE {})

ContextKey(depth) == IF depth = 0 THEN "k0" ELSE "k1"

Result(p, ret, event, exc, context, stage) ==
    [p |-> p, ret |-> ret, event |-> event, exc |-> exc, context |-> context,
     stage |-> stage]

RECURSIVE Walk(_, _, _, _, _, _, _)
Walk(p, depth, i, outs, event, context, t) ==
    LET level == p.Processors[depth + 1]
    IN IF i > Len(level)
       THEN \* every processor of the level handed an event on
            IF event.lazy /\ Len(p.Processors) > depth
            THEN Result(p, "lazy", event, None, context, i)
            ELSE Result(SetError(p, context, event, "ProcessingError", t),
                        "raise", event, "ProcessingError", context, i)
       ELSE LET o == outs[i]
                processor == level[i]
            IN CASE o.kind = "raise" ->
                      IF depth > 0
                      THEN Result(p, "raise", event, o.exc, context, i)
                      ELSE Result(SetError(p, context, event, o.exc, t),
                                  "raise", event, o.exc, context, i)
                 [] o.kind = "none" ->
                      LET q == IF o.throttle THEN Throttle(p, "sink", TRUE).p ELSE p
                          counted ==
                              IF Len(q.Processors) = depth + 1
                              THEN IF processor = "Sink"
                                   THEN [q EXCEPT !.counter.event_out = @ + 1]
                                   ELSE [q EXCEPT !.counter.event_drop = @ + 1]
                              ELSE q
                      IN Result(counted, "none", event, None, context, i)
                 [] o.kind = "lazy" ->
                      Walk(p, depth, i + 1, outs, Lazy(event.id, o.n), context, t)
                 [] o.kind = "tee" ->
                      LET r == TeeProcess(p.tee, WalkerArgs, event)
                      IN IF r.exc = None
                         THEN Walk([p EXCEPT !.tee = r.tee], depth, i + 1, outs,
                                   event, context, t)
                         ELSE IF depth > 0
                         THEN Result(p, "raise", event, r.exc, context, i)
                         ELSE Result(SetError(p, context, event, r.exc, t),
                                     "raise", event, r.exc, context, i)
                 [] OTHER ->
                      Walk(p, depth, i + 1, outs, Event(event.id), context, t)

\* _do_process(event, depth, context); `write` says whether the first
\* processor of the level stores a key in the context it is given.
DoProcess(p, depth, outs, write, event, context, t) ==
    IF depth + 1 > Len(p.Processors)
    THEN Result(p, "raise", event, "IndexError", context, 0)
    ELSE Walk(p, depth, 1, outs, event,
              IF write /\ p.Processors[depth + 1] # <<>>
              THEN context \cup {ContextKey(depth)} ELSE context,
              t)

\* dict.copy(): a new dict with the same keys; a write to it stays in it.
ProcessContext(p, caller) ==
    IF ~caller.given THEN [keys |-> p.context, shared |-> FALSE]
    ELSE [keys |-> caller.keys \cup p.context, shared |-> FALSE]

\* the sub-event is walked with the context of its parent, not with a copy
GeneratorContext_shared(context) == [keys |-> context, shared |-> TRUE]

GeneratorContext(context) == [keys |-> context, shared |-> FALSE]


\* the loop conditions `while not self.is_ready()` of process() and of
\* _generator_process()
\* a process() that pushes its event without looking at readiness
ProcessWaits_never(p) == FALSE

\* a process() that waits for the throttle only, not for the error state
ProcessWaits_throttled(p) == p.throttles # {}

ProcessWaits(p) == ~is_ready(p)

\* a generator expansion that does not look at readiness between sub-events
GeneratorWaits_never(p) == FALSE

GeneratorWaits(p) == ~is_ready(p)

\* ------------------------------------------------------ source coroutines
NoCaller == [given |-> FALSE, keys |-> {}]

IdleTask ==
    [pc |-> "idle",          \* idle | loop | wait | chill
     at |-> "process",       \* the loop of process() or of _generator_process()
     event |-> NoEvent,      \* the event or sub-event in hand
     caller |-> NoCaller,    \* the context argument
     context |-> {},         \* the keys of the per-event context
     gen |-> NoEvent,        \* the generator being expanded
     next |-> 0,             \* index of its next item
     wrote |-> FALSE,        \* a sub-event walk of this expansion stored a key
     orphaned |-> FALSE,     \* sub-events went to a coroutine nobody awaits
     hit |-> 0,              \* cycle(): index of the hit handed to process()
     hits |-> 0,             \* cycle(): hits still to be fed after this one
     entered |-> 0,          \* hits of this cycle that entered the chain
     owed |-> 0,             \* sub-events of earlier hits that were never walked
     streak |-> 0]           \* process() calls that returned since the task last
                             \* gave the event loop back

\* an expansion that ends after its first sub-event
NextItem_first(tk, gen, idx, context, wrote, orphaned) ==
    IF idx > gen.n \/ idx > 1 THEN IdleTask
    ELSE [tk EXCEPT !.pc = "loop", !.at = "generator", !.event = SubEvent(gen, idx),
                    !.context = context, !.gen = gen, !.next = idx + 1,
                    !.wrote = wrote, !.orphaned = orphaned]

\* `for gevent in event:` fetches item `idx` or ends the call.
NextItem(tk, gen, idx, context, wrote, orphaned) ==
    IF idx > gen.n THEN IdleTask
    ELSE [tk EXCEPT !.pc = "loop", !.at = "generator", !.event = SubEvent(gen, idx),
                    !.context = context, !.gen = gen, !.next = idx + 1,
                    !.wrote = wrote, !.orphaned = orphaned]

\* `for hit in hits: await self.process(...)`: process() returned to the
\* cycle, which calls it for the next hit without giving the loop back, or
\* ends; an exception of process() ends the cycle. `tk2` is where the call
\* stands, `left` counts the sub-events of the hit that it did not walk.
NextHit(tk, tk2, raised, left) ==
    IF tk2.pc = "idle" /\ ~raised /\ tk.hits > 0
    THEN [IdleTask EXCEPT !.pc = "loop", !.event = Event(<<tk.event.id[1]>>),
                          !.caller = tk.caller, !.hit = tk.hit + 1,
                          !.hits = tk.hits - 1, !.entered = tk.entered,
                          !.owed = tk.owed + left, !.streak = tk.streak + 1]
    ELSE tk2

\* ready(), up to the await that suspends the coroutine.
ReadyCall(p, s) ==
    LET counter == p.chillout_counter + 1
        chill == counter >= chillout_trigger
        q == [p EXCEPT !.chillout_counter = IF chill THEN 0 ELSE counter]
    IN IF chill THEN [p |-> q, pc |-> "chill"]
       ELSE IF is_ready(q) THEN [p |-> q, pc |-> "loop"]
       ELSE [p |-> [q EXCEPT !.waiters = @ \cup {s}], pc |-> "wait"]

\* Source.restart(loop): the task is cancelled at the await it is suspended
\* in and a fresh one is started.
Restart(p, tasks) ==
    [p |-> [p EXCEPT !.waiters = {s \in @ : p.restarts[s] = 0},
                     !.woken = {s \in @ : p.restarts[s] = 0}],
     task |-> [s \in SourceIds |-> IF p.restarts[s] > 0 THEN IdleTask ELSE tasks[s]]]

Obs(op, s) ==
    [op |-> op, src |-> s, depth |-> 0, ret |-> "-", exc |-> None, stage |-> 0,
     processor |-> "-", seen |-> {}, context |-> {}, wrote |-> FALSE,
     returned |-> FALSE, orphaned |-> FALSE, event |-> NoEvent,
     who |-> None, calls |-> <<>>, resumed |-> FALSE, hit |-> 0]

WalkObs(op, s, depth, r, seen, p) ==
    [Obs(op, s) EXCEPT
        !.depth = depth, !.ret = r.ret, !.exc = r.exc, !.stage = r.stage,
        !.processor = IF depth + 1 <= Len(p.Processors)
                         /\ r.stage \in 1..Len(p.Processors[depth + 1])
                      THEN p.Processors[depth + 1][r.stage] ELSE "-",
        !.seen = seen, !.context = r.context, !.event = r.event]

\* ---------------------------------------------------------- BSPumpService
\* An Id is a string: a sequence of characters. The objects handed to the
\* add_*() methods are told apart by a number; several may carry one Id.
Ids == {<<"p">>, <<"p", "p">>}
Objects == 1..MaxObjects

EmptyDict == [id \in {} |-> 0]

\* dict[key] = value
Put(dict, key, value) ==
    [id \in DOMAIN dict \cup {key} |-> IF id = key THEN value ELSE dict[id]]

\* What the latest call of a service method was and how it ended: `id` is the
\* Id of the object handed in, or the address handed to locate().
Out(op, id, n, exc) == [op |-> op, id |-> id, n |-> n, exc |-> exc, ret |-> Nothing]

NewService ==
    [Pipelines   |-> EmptyDict,
     Connections |-> EmptyDict,
     Lookups     |-> EmptyDict,
     phase       |-> "new",     \* initialize(): new | wait | done
     updates     |-> {},        \* the lookups whose update task initialize() awaits
     loaded      |-> {},        \* the lookups whose update task has finished
     started     |-> {},        \* the pipelines whose start() was called
     out         |-> Out("init", <<>>, 0, None)]

\* add_pipeline(pipeline), add_connection(connection), add_lookup(lookup)
\* for the object `n` whose Id is `id`.

\* an add_pipeline() that replaces the pipeline registered under the Id
AddPipelineTo_replacing(sv, id, n) ==
    [sv EXCEPT !.Pipelines = Put(@, id, n), !.out = Out("add_pipeline", id, n, None)]

AddPipelineTo(sv, id, n) ==
    IF id \in DOMAIN sv.Pipelines
    THEN [sv EXCEPT !.out = Out("add_pipeline", id, n, "RuntimeError")]
    ELSE [sv EXCEPT !.Pipelines = Put(@, id, n), !.out = Out("add_pipeline", id, n, None)]

AddConnectionTo(sv, id, n) ==
    IF id \in DOMAIN sv.Connections
    THEN [sv EXCEPT !.out = Out("add_connection", id, n, "RuntimeError")]
    ELSE [sv EXCEPT !.Connections = Put(@, id, n),
                    !.out = Out("add_connection", id, n, None)]

\* the message of the RuntimeError is formatted from `lookup_id`, a name
\* that is not defined: the raise statement ends with a NameError
AddLookupTo(sv, id, n) ==
    IF id \in DOMAIN sv.Lookups
    THEN [sv EXCEPT !.out = Out("add_lookup", id, n, "NameError")]
    ELSE [sv EXCEPT !.Lookups = Put(@, id, n), !.out = Out("add_lookup", id, n, None)]

\* an initialize() that does not wait for the update tasks
AwaitsUpdates_never(sv) == FALSE

\* initialize(): `if len(lookup_update_tasks) > 0: await asyncio.wait(...)`
AwaitsUpdates(sv) == DOMAIN sv.Lookups # {}

\* The pipelines handed to add_pipeline(): their sources, in the order of
\* set_source(), and their processors, one list per level.
SourcesOf(n) ==
    IF n % 2 = 1 THEN << <<"p">>, <<"*">>, <<"p">> >> ELSE << <<"p", "p">> >>

ProcessorsOf(n) ==
    IF n % 2 = 1
    THEN << << <<"p", "p">>, <<"p">> >>, << <<"p">>, <<".">> >> >>
    ELSE << << <<"*", "p">> >> >>

\* address.split('.', 1) where a dot is in the address
Dotted(address) == \E i \in 1..Len(address) : address[i] = "."

Dot_last(address) ==
    CHOOSE i \in 1..Len(address) :
        address[i] = "." /\ \A j \in (i + 1)..Len(address) : address[j] # "."

Dot(address) ==
    CHOOSE i \in 1..Len(address) :
        address[i] = "." /\ \A j \in 1..(i - 1) : address[j] # "."

PipelinePart(address) == SubSeq(address, 1, Dot(address) - 1)
TargetPart(address) == SubSeq(address, Dot(address) + 1, Len(address))

\* `for source in pipeline.Sources: if source.Id == id: return source`
RECURSIVE FindSource(_, _, _)
FindSource(n, id, i) ==
    IF i > Len(SourcesOf(n)) THEN Nothing
    ELSE IF SourcesOf(n)[i] = id THEN Located("source", n, 0, i)
    ELSE FindSource(n, id, i + 1)

\* `for processor in pipeline.iter_processors(): if processor.Id == id:
\* return processor`, iter_processors() going through the levels in order
RECURSIVE FindProcessor(_, _, _, _)
FindProcessor(n, id, level, i) ==
    IF level > Len(ProcessorsOf(n)) THEN Nothing
    ELSE IF i > Len(ProcessorsOf(n)[level]) THEN FindProcessor(n, id, level + 1, 1)
    ELSE IF ProcessorsOf(n)[level][i] = id THEN Located("processor", n, level, i)
    ELSE FindProcessor(n, id, level, i + 1)

\* locate(address)
Locate(sv, address) ==
    LET dotted == Dotted(address)
        p == IF dotted THEN PipelinePart(address) ELSE address
        t == IF dotted THEN TargetPart(address) ELSE <<>>      \* read if dotted only
    IN IF p \notin DOMAIN sv.Pipelines THEN Nothing
       ELSE IF ~dotted THEN Located("pipeline", sv.Pipelines[p], 0, 0)
       ELSE IF t # <<>> /\ t[1] = "*"                  \* t[:1] == '*'
            THEN FindSource(sv.Pipelines[p], Tail(t), 1)    \* t[1:]
            ELSE FindProcessor(sv.Pipelines[p], t, 1, 1)

\* isinstance(source, InternalSource): the sources of the pipelines above
\* are InternalSources.
IsInternalSource(located) == located.kind = "source"

\* TeeProcessor.start()
TeeStart(tee, sv) ==
    IF tee.Source = Nothing
    THEN LET source == Locate(sv, tee.target)
         IN IF source = Nothing THEN tee
            ELSE IF ~IsInternalSource(source) THEN tee
            ELSE [tee EXCEPT !.Source = source]
    ELSE tee

\* -------------------------------------------------------- SessionAnalyzer
\* _initialize_sessions(). A row of the matrix is told by the session it was
\* created for; a dict is the list of its items in insertion order; row
\* indices start at 0. `added` remembers the session ids that were used.
NewAnalyzer ==
    [Sessions        |-> <<>>,
     RowMap          |-> <<>>,
     RevRowMap       |-> <<>>,
     DeactivatedRows |-> {},
     added           |-> {},
     out             |-> [op |-> "init", id |-> 0, ret |-> 0, exc |-> None]]

Keys(dict) == {dict[i][1] : i \in 1..Len(dict)}

\* dict[key] for a key of the dict
Item(dict, key) == dict[CHOOSE i \in 1..Len(dict) : dict[i][1] = key][2]

\* dict[key] = value: a new key goes to the end, a known key keeps its place
SetItem(dict, key, value) ==
    IF key \in Keys(dict)
    THEN [i \in 1..Len(dict) |-> IF dict[i][1] = key THEN <<key, value>> ELSE dict[i]]
    ELSE Append(dict, <<key, value>>)

AnalyzerOut(op, id, ret, exc) == [op |-> op, id |-> id, ret |-> ret, exc |-> exc]

\* add_session(session_id, start_time)
AddSession(a, session_id) ==
    LET row_counter == Len(a.RowMap)
    IN [a EXCEPT !.Sessions = Append(@, session_id),
                 !.RowMap = SetItem(@, session_id, row_counter),
                 !.RevRowMap = SetItem(@, row_counter, session_id),
                 !.added = @ \cup {session_id},
                 !.out = AnalyzerOut("add_session", session_id, 0, None)]

\* deactivate_session(session_id)
DeactivateSession(a, session_id) ==
    LET done == [a EXCEPT !.out = AnalyzerOut("deactivate_session", session_id, 0, None)]
    IN IF session_id \notin Keys(a.RowMap) THEN done
       ELSE [done EXCEPT !.DeactivatedRows = @ \cup {Item(a.RowMap, session_id)}]

\* new_rev_row_map of rebuild_sessions: `new_rev_row_map[value] = key` for the
\* items that are kept, in their order
RECURSIVE NewRevRowMap(_, _, _)
NewRevRowMap(items, i, map) ==
    IF i > Len(items) THEN map
    ELSE NewRevRowMap(items, i + 1, SetItem(map, items[i][2], items[i][1]))

\* rebuild_sessions(mode); Sessions[saved_indexes] raises IndexError for an
\* index that is not a row of the matrix, before anything is assigned.
RebuildSessions(a, mode) ==
    LET done == [a EXCEPT !.out = AnalyzerOut("rebuild_sessions", 0, 0, None)]
        Saved(item) == item[2] \notin a.DeactivatedRows
        new_row_map == SelectSeq(a.RowMap, Saved)
        saved_indexes == [i \in 1..Len(new_row_map) |-> new_row_map[i][2]]
    IN IF mode = "full"
       THEN [done EXCEPT !.Sessions = <<>>, !.RowMap = <<>>, !.RevRowMap = <<>>,
                         !.DeactivatedRows = {}]
       ELSE IF mode = "partial"
       THEN IF \E i \in 1..Len(saved_indexes) : saved_indexes[i] >= Len(a.Sessions)
            THEN [done EXCEPT !.out.exc = "IndexError"]
            ELSE [done EXCEPT
                     !.Sessions = [i \in 1..Len(saved_indexes) |->
                                      a.Sessions[saved_indexes[i] + 1]],
                     !.RowMap = new_row_map,
                     !.RevRowMap = NewRevRowMap(new_row_map, 1, <<>>),
                     !.DeactivatedRows = {}]
       ELSE done

\* get_session(session_id): the session the returned row was created for,
\* 0 for None
GetSession(a, session_id) ==
    IF session_id \notin Keys(a.RowMap)
    THEN [a EXCEPT !.out = AnalyzerOut("get_session", session_id, 0, None)]
    ELSE LET row == Item(a.RowMap, session_id)
         IN IF row >= Len(a.Sessions)
            THEN [a EXCEPT !.out = AnalyzerOut("get_session", session_id, 0, "IndexError")]
            ELSE [a EXCEPT !.out = AnalyzerOut("get_session", session_id,
                                               a.Sessions[row + 1], None)]

\* ------------------------------------------------------------------ state
Chains == UNION {[1..n -> Kinds] : n \in 1..MaxChain}

\* The state after construction of a pipeline built from `processors` with
\* the sources `sources`, before start(). The deployment around it: the
\* tokens handed to throttle(), the exceptions handed to set_error() from
\* outside, the contexts the sources pass, whether processors store keys in
\* the context, and how far the clock advances.
Deploy(chains, sources, deployment) ==
    /\ \E processors \in chains : pipeline = NewPipeline(sources, processors)
    /\ task = [s \in SourceIds |-> IdleTask]
    /\ running = 0
    /\ now = 0
    /\ started = FALSE
    /\ env = deployment
    /\ last = Obs("init", 0)
    /\ service = NewService
    /\ analyzer = NewAnalyzer

\* Sources that call process() once per firing, processors that may raise
\* any exception.
Configure(chains, sources, tokens, errors, callers, writes, maxtime) ==
    Deploy(chains, sources,
           [tokens |-> tokens, errors |-> errors, callers |-> callers,
            writes |-> writes, maxtime |-> maxtime,
            hits |-> {1}, events |-> MaxEvents, raises |-> Exceptions])

\* Every chain build() accepts, fed by one source.
Init == Configure(Chains, {1}, {"sink"}, Exceptions, {NoCaller}, {FALSE}, 0)

\* Several sources pushing into the same pipeline.
InitSources ==
    Configure({<<"Sink">>, <<"Generator", "Sink">>}, SourceIds, Tokens,
              {"ExcHard"}, {NoCaller}, {FALSE}, 0)

\* Sources that pass a context of their own, processors that store keys in
\* the context, and a clock that advances.
InitContext ==
    Configure({<<"Processor", "Sink">>, <<"Generator", "Sink">>},
              {1}, {"sink"}, {"ExcHard"}, CallerContexts, BOOLEAN, MaxTime)

\* ---------------------------------------------------------------- actions
\* App.time() never runs backwards: a reading is at least the latest one.
Clock == now..env.maxtime

\* The clock is read on the hard path of set_error only: the readings a call
\* that leaves the pipeline as `p` may have taken.
Readings(p) == IF p.error # NoError THEN Clock ELSE {now}

Start ==
    /\ running = 0
    /\ pipeline' = StartPipeline(Begin(pipeline))
    /\ started' = TRUE
    /\ last' = Obs("start", 0)
    /\ UNCHANGED <<task, running, now, env, service, analyzer>>

ThrottleCall(who, enable) ==
    /\ running = 0
    /\ who \in env.tokens
    /\ LET r == Throttle(Begin(pipeline), who, enable)
       IN /\ pipeline' = r.p
          /\ last' = [Obs("throttle", 0) EXCEPT !.exc = r.exc, !.who = who,
                                                !.calls = <<enable>>]
    /\ UNCHANGED <<task, running, now, started, env, service, analyzer>>

\* A caller that throttles and releases in one go, without an await between
\* the calls: throttle(who) [throttle(who)] throttle(who, False).
ThrottleBursts == {<<TRUE, FALSE>>, <<TRUE, TRUE, FALSE>>}

ThrottleBurst(who, enables) ==
    /\ running = 0
    /\ who \in env.tokens
    /\ LET r == ThrottleAll(Begin(pipeline), who, enables, 1)
       IN /\ pipeline' = r.p
          /\ last' = [Obs("throttles", 0) EXCEPT !.exc = r.exc, !.who = who,
                                                 !.calls = enables, !.stage = r.done]
    /\ UNCHANGED <<task, running, now, started, env, service, analyzer>>

SetErrorCall(exc) ==
    /\ running = 0
    /\ exc \in {None} \cup env.errors
    /\ ~CatchError(exc, NoEvent) => pipeline.counter.warning < MaxEvents   \* cap of the counter
    /\ \E t \in Readings(SetError(Begin(pipeline), {}, NoEvent, exc, now)) :
         LET r == Restart(SetError(Begin(pipeline), {}, NoEvent, exc, t), task)
         IN /\ pipeline' = r.p
            /\ task' = r.task
            /\ now' = IF r.p.error # pipeline.error /\ r.p.error # NoError THEN t ELSE now
            /\ last' = [Obs("set_error", 0) EXCEPT !.exc = exc]
    /\ UNCHANGED <<running, started, env, service, analyzer>>

\* process() past its loop: count the event in and walk chain[0].
EnterWalk(s, p, tk) ==
    LET p1 == [p EXCEPT !.counter.event_in = @ + 1]
        cx == ProcessContext(p1, tk.caller)
    IN \E outs \in OutSeqs(p1.Processors[1]), write \in env.writes :
       \E t \in Readings(DoProcess(p1, 0, outs, write, tk.event, cx.keys, now).p) :
         LET r == DoProcess(p1, 0, outs, write, tk.event, cx.keys, t)
             tke == [tk EXCEPT !.entered = @ + 1]
             tk2 == IF r.ret = "lazy"
                    THEN NextItem(tke, r.event, 1, r.context, FALSE, FALSE)
                    ELSE IdleTask
             tk3 == NextHit(tke, tk2, r.ret = "raise",
                            IF r.ret = "lazy" THEN r.event.n ELSE 0)
         IN /\ pipeline' = IF cx.shared THEN [r.p EXCEPT !.context = r.context] ELSE r.p
            /\ task' = [task EXCEPT ![s] = tk3]
            /\ running' = IF tk3.pc = "idle" THEN 0 ELSE s
            /\ now' = IF r.p.error # p.error THEN t ELSE now
            /\ last' = [WalkObs("enter", s, 0, r, cx.keys, p1) EXCEPT
                           !.returned = (tk2.pc = "idle" /\ r.ret # "raise"),
                           !.resumed = (tk.pc # "loop"), !.hit = tk.hit]

\* _generator_process() past its loop: walk chain[1] for one sub-event.
SubWalk(s, p, tk) ==
    LET sx == GeneratorContext(tk.context)
        level == IF Len(p.Processors) > 1 THEN p.Processors[2] ELSE <<>>
    IN \E outs \in OutSeqs(level), write \in env.writes :
       \E t \in Readings(DoProcess(p, 1, outs, write, tk.event, sx.keys, now).p) :
         LET r == DoProcess(p, 1, outs, write, tk.event, sx.keys, t)
             \* the coroutine of _generator_process(ngevent, depth+1, context)
             \* is created and dropped: its sub-events are never walked
             orphaned == tk.orphaned \/ (r.ret = "lazy" /\ r.event.n > 0)
             context == IF sx.shared THEN r.context ELSE tk.context
             tk2 == IF r.ret = "raise" THEN IdleTask
                    ELSE NextItem(tk, tk.gen, tk.next, context, tk.wrote \/ write, orphaned)
             tk3 == NextHit(tk, tk2, r.ret = "raise", tk.gen.n - (tk.next - 1))
         IN /\ pipeline' = r.p
            /\ task' = [task EXCEPT ![s] = tk3]
            /\ running' = IF tk3.pc = "idle" THEN 0 ELSE s
            /\ now' = IF r.p.error # p.error THEN t ELSE now
            /\ last' = [WalkObs("subwalk", s, 1, r, sx.keys, p) EXCEPT
                           !.returned = (tk2.pc = "idle" /\ r.ret # "raise"),
                           !.wrote = tk.wrote, !.orphaned = orphaned]

\* `await self.ready()`: the loop is given back unless ready() returns at once.
Park(s, p, tk) ==
    LET r == ReadyCall(p, s)
    IN /\ pipeline' = r.p
       /\ task' = [task EXCEPT ![s] = [tk EXCEPT !.pc = r.pc,
                                                !.streak = IF r.pc = "loop" THEN @ ELSE 0]]
       /\ running' = IF r.pc = "loop" THEN s ELSE 0
       /\ now' = now
       /\ last' = Obs("sched", 0)

\* A coroutine at the head of `while not self.is_ready()`.
Turn(s, p, tk) ==
    IF tk.at = "process"
    THEN IF ProcessWaits(p) THEN Park(s, p, tk) ELSE EnterWalk(s, p, tk)
    ELSE IF GeneratorWaits(p) THEN Park(s, p, tk) ELSE SubWalk(s, p, tk)

\* The process() calls that have not counted their event in yet.
InFlight == Cardinality({s \in SourceIds : task[s].pc # "idle" /\ task[s].at = "process"})

\* The hits the running cycles still have to feed.
RECURSIVE Unfed(_)
Unfed(sources) ==
    IF sources = {} THEN 0
    ELSE LET s == CHOOSE x \in sources : TRUE
         IN task[s].hits + Unfed(sources \ {s})

\* A source calls process(event, context): once, or for each hit of a cycle.

Process(s, caller) ==
    /\ running = 0
    /\ s \in pipeline.Sources
    /\ caller \in env.callers
    /\ task[s].pc = "idle"
    /\ \E n \in env.hits :
         /\ pipeline.counter.event_in + InFlight + Unfed(SourceIds) + n <= env.events
         /\ Turn(s, Begin(pipeline),
                 [IdleTask EXCEPT !.pc = "loop", !.event = Event(<<s>>),
                                  !.caller = caller, !.hit = 1, !.hits = n - 1])
    /\ UNCHANGED <<started, env, service, analyzer>>

\* The coroutine goes on with the next sub-event, or the next hit, without
\* giving the loop back.
Continue(s) ==
    /\ running = s
    /\ task[s].pc = "loop"
    /\ Turn(s, Begin(pipeline), task[s])
    /\ UNCHANGED <<started, env, service, analyzer>>

\* asyncio.sleep() is over; _ready.wait() returns at once if the flag is up.
ChillResume(s) ==
    /\ running = 0
    /\ task[s].pc = "chill"
    /\ IF is_ready(pipeline)
       THEN Turn(s, Begin(pipeline), task[s])
       ELSE /\ task' = [task EXCEPT ![s].pc = "wait"]
            /\ pipeline' = [Begin(pipeline) EXCEPT !.waiters = @ \cup {s}]
            /\ last' = Obs("sched", 0)
            /\ UNCHANGED <<running, now>>
    /\ UNCHANGED <<started, env, service, analyzer>>

\* _ready.set() released the waiter; the loop runs it again.
WaitResume(s) ==
    /\ running = 0
    /\ task[s].pc = "wait"
    /\ s \in pipeline.woken
    /\ Turn(s, [Begin(pipeline) EXCEPT !.woken = @ \ {s}], task[s])
    /\ UNCHANGED <<started, env, service, analyzer>>

Next ==
    \/ Start
    \/ \E who \in Tokens, enable \in BOOLEAN : ThrottleCall(who, enable)
    \/ \E exc \in {None} \cup Exceptions : SetErrorCall(exc)
    \/ \E s \in SourceIds, caller \in CallerContexts : Process(s, caller)
    \/ \E s \in SourceIds : Continue(s)
    \/ \E s \in SourceIds : ChillResume(s)
    \/ \E s \in SourceIds : WaitResume(s)

Spec == Init /\ [][Next]_vars

SpecSources == InitSources /\ [][Next]_vars

SpecContext == InitContext /\ [][Next]_vars

\* The pipeline with callers that throttle and release in one go.
InitThrottle ==
    Configure({<<"Sink">>, <<"Generator", "Sink">>}, {1}, Tokens,
              {"ExcHard"}, {NoCaller}, {FALSE}, 0)

NextThrottle ==
    \/ Next
    \/ \E who \in Tokens, enables \in ThrottleBursts : ThrottleBurst(who, enables)

SpecThrottle == InitThrottle /\ [][NextThrottle]_vars

\* A source whose cycle feeds its hits one after the other, in cycles long
\* enough for the chillout to be due.
InitChill ==
    Deploy({<<"Sink">>, <<"Generator", "Sink">>}, {1},
           [tokens |-> {"sink"}, errors |-> {"ExcHard"}, callers |-> {NoCaller},
            writes |-> {FALSE}, maxtime |-> 0,
            hits |-> 1..(chillout_trigger + 1), events |-> chillout_trigger + 1,
            raises |-> Exceptions])

SpecChill == InitChill /\ [][Next]_vars

\* Sources that find the pipeline throttled or faulted, under the scheduling
\* of the asyncio event loop: a callback that is ready to run is run.
InitFair ==
    Deploy({<<"Sink">>}, SourceIds,
           [tokens |-> {"sink"}, errors |-> {"ExcHard"}, callers |-> {NoCaller},
            writes |-> {FALSE}, maxtime |-> 0,
            hits |-> 1..MaxEvents, events |-> MaxEvents, raises |-> Exceptions])

Fairness ==
    \A s \in SourceIds :
        /\ WF_vars(Continue(s))
        /\ SF_vars(ChillResume(s))
        /\ SF_vars(WaitResume(s))

SpecFair == InitFair /\ [][Next]_vars /\ Fairness

\* Sources that submit their events in bursts to a sink that throttles the
\* pipeline when it takes an event and releases it later; nothing raises.
InitBurst ==
    Deploy({<<"Sink">>}, SourceIds,
           [tokens |-> {"sink"}, errors |-> {}, callers |-> {NoCaller},
            writes |-> {FALSE}, maxtime |-> 0,
            hits |-> 1..MaxEvents, events |-> MaxEvents, raises |-> {}])

SpecBurst == InitBurst /\ [][Next]_vars

\* Two sources whose cycles feed their hits into the same pipeline, which a
\* sink throttles and releases: a whole cycle and one more push fit in. A
\* processor that raises ends the cycle of its source.
InitCycle ==
    Deploy({<<"Sink">>, <<"Generator", "Sink">>}, {1, 2},
           [tokens |-> {"sink"}, errors |-> {}, callers |-> {NoCaller},
            writes |-> {FALSE}, maxtime |-> 0,
            hits |-> 1..MaxEvents, events |-> MaxEvents + 1, raises |-> {"ExcSoft"}])

SpecCycle == InitCycle /\ [][Next]_vars

\* Two sources pushing into a pipeline that may lack its sink, with errors
\* set and reset from outside as well.
InitFaults ==
    Configure({<<"Processor">>, <<"Generator">>, <<"Generator", "Sink">>}, {1, 2},
              {"sink"}, {"ExcHard"}, {NoCaller}, {FALSE}, 0)

SpecFaults == InitFaults /\ [][Next]_vars

\* ------------------------------------------------------- service actions
\* The pipeline of the state above is the object 1 whose Id is "p".
ThePipeline == << <<"p">>, 1 >>

AddPipeline(id, n) ==
    /\ service' = AddPipelineTo(service, id, n)
    /\ UNCHANGED <<pipeline, task, running, now, started, env, last, analyzer>>

AddConnection(id, n) ==
    /\ service' = AddConnectionTo(service, id, n)
    /\ UNCHANGED <<pipeline, task, running, now, started, env, last, analyzer>>

AddLookup(id, n) ==
    /\ service' = AddLookupTo(service, id, n)
    /\ UNCHANGED <<pipeline, task, running, now, started, env, last, analyzer>>

\* start() of every registered pipeline, in one turn of the loop
StartPipelines(sv) ==
    LET starts == {<<id, sv.Pipelines[id]>> : id \in DOMAIN sv.Pipelines}
    IN /\ service' = [sv EXCEPT !.started = @ \cup starts, !.phase = "done"]
       /\ IF ThePipeline \in starts
          THEN /\ pipeline' = StartPipeline(Begin(pipeline))
               /\ started' = TRUE
               /\ last' = Obs("start", 0)
          ELSE UNCHANGED <<pipeline, started, last>>

\* initialize() up to its await, or to its end where it does not await
Initialize ==
    /\ service.phase = "new"
    /\ LET sv == [service EXCEPT !.updates = DOMAIN service.Lookups,
                                 !.out = Out("initialize", <<>>, 0, None)]
       IN IF AwaitsUpdates(sv)
          THEN /\ service' = [sv EXCEPT !.phase = "wait"]
               /\ UNCHANGED <<pipeline, started, last>>
          ELSE StartPipelines(sv)
    /\ UNCHANGED <<task, running, now, env, analyzer>>

\* The update task of a lookup finishes: its load() is over.
LoadDone(id) ==
    /\ id \in service.updates \ service.loaded
    /\ service' = [service EXCEPT !.loaded = @ \cup {id},
                                  !.out = Out("load", id, 0, None)]
    /\ UNCHANGED <<pipeline, task, running, now, started, env, last, analyzer>>

\* asyncio.wait() returns when every task it was given is done.
InitializeResume ==
    /\ service.phase = "wait"
    /\ service.updates \subseteq service.loaded
    /\ StartPipelines([service EXCEPT !.out = Out("initialize", <<>>, 0, None)])
    /\ UNCHANGED <<task, running, now, env, analyzer>>

\* Addresses: strings of at most MaxAddr characters.
Chars == {"p", ".", "*"}
Addresses == UNION {[1..k -> Chars] : k \in 0..MaxAddr}

LocateCall(address) ==
    /\ service' = [service EXCEPT !.out = [Out("locate", address, 0, None)
                                             EXCEPT !.ret = Locate(service, address)]]
    /\ UNCHANGED <<pipeline, task, running, now, started, env, last, analyzer>>

\* The service of an application: objects are registered, then the
\* application initializes the service.
InitService ==
    Configure({<<"Sink">>}, {1}, {"sink"}, {}, {NoCaller}, {FALSE}, 0)

\* The Id that pipelines, connections and lookups all carry here.
SharedIds == {ThePipeline[1]}

NextService ==
    \/ \E id \in SharedIds, n \in Objects : AddPipeline(id, n)
    \/ \E id \in SharedIds, n \in Objects : AddConnection(id, n)
    \/ \E id \in Ids, n \in Objects : AddLookup(id, n)
    \/ Initialize
    \/ \E id \in Ids : LoadDone(id)
    \/ InitializeResume

SpecService == InitService /\ [][NextService]_vars

\* The service as a directory: pipelines are registered and located.
NextLocate ==
    \/ \E id \in Ids, n \in Objects : AddPipeline(id, n)
    \/ \E address \in Addresses : LocateCall(address)

SpecLocate == InitService /\ [][NextLocate]_vars

\* ----------------------------------------------------------- tee actions
\* The targets a TeeProcessor is constructed with: a source of the pipeline
\* registered as "p", and that pipeline itself.
TeeTargets == {<<"p", ".", "*", "p">>, <<"p">>}

TeeStartCall ==
    /\ running = 0
    /\ pipeline' = [Begin(pipeline) EXCEPT !.tee = TeeStart(@, service)]
    /\ last' = Obs("tee_start", 0)
    /\ UNCHANGED <<task, running, now, started, env, service, analyzer>>

\* Pipeline A, built from a TeeProcessor and a Sink and fed by one source;
\* pipeline B is registered with the service at some time.
InitTee ==
    /\ \E target \in TeeTargets :
          pipeline = [NewPipeline({1}, <<"Tee", "Sink">>) EXCEPT !.tee.target = target]
    /\ task = [s \in SourceIds |-> IdleTask]
    /\ running = 0
    /\ now = 0
    /\ started = FALSE
    /\ env = [tokens |-> {"sink"}, errors |-> {}, callers |-> {NoCaller},
              writes |-> {FALSE}, maxtime |-> 0, hits |-> {1},
              events |-> MaxEvents, raises |-> {}]
    /\ last = Obs("init", 0)
    /\ service = NewService
    /\ analyzer = NewAnalyzer

\* Continue is left out: no walk of this chain gets past the TeeProcessor,
\* so no coroutine goes on without giving the loop back.
NextTee ==
    \/ Start
    \/ \E who \in Tokens, enable \in BOOLEAN : ThrottleCall(who, enable)
    \/ SetErrorCall(None)
    \/ \E s \in SourceIds, caller \in CallerContexts : Process(s, caller)
    \/ \E s \in SourceIds : ChillResume(s)
    \/ \E s \in SourceIds : WaitResume(s)
    \/ TeeStartCall
    \/ \E id \in SharedIds, n \in Objects : AddPipeline(id, n)

SpecTee == InitTee /\ [][NextTee]_vars

\* ------------------------------------------------------ analyzer actions
SessionIds == 1..MaxSessions
Modes == {"full", "partial", "other"}

\* Sessions are added under ids that were not used before.
AddSessionCall(session_id) ==
    /\ session_id \notin analyzer.added
    /\ analyzer' = AddSession(analyzer, session_id)
    /\ UNCHANGED <<pipeline, task, running, now, started, env, last, service>>

DeactivateSessionCall(session_id) ==
    /\ analyzer' = DeactivateSession(analyzer, session_id)
    /\ UNCHANGED <<pipeline, task, running, now, started, env, last, service>>

RebuildSessionsCall(mode) ==
    /\ analyzer' = RebuildSessions(analyzer, mode)
    /\ UNCHANGED <<pipeline, task, running, now, started, env, last, service>>

GetSessionCall(session_id) ==
    /\ analyzer' = GetSession(analyzer, session_id)
    /\ UNCHANGED <<pipeline, task, running, now, started, env, last, service>>

NextSessions ==
    \/ \E session_id \in SessionIds : AddSessionCall(session_id)
    \/ \E session_id \in SessionIds : DeactivateSessionCall(session_id)
    \/ \E mode \in Modes : RebuildSessionsCall(mode)
    \/ \E session_id \in SessionIds : GetSessionCall(session_id)

SpecSessions == InitService /\ [][NextSessions]_vars

\* ------------------------------------------------------------------ claims
Walked == {"enter", "subwalk"}     \* the operations that run the chain walker

\* C1: once start() has been called, the pipeline is ready if and only if
\* its error state is clean and its throttle set is empty, after every
\* operation (throttle, set_error, process).
C1_ReadyIffCleanAndUnthrottled ==
    started => (is_ready(pipeline) <=>
                    (pipeline.error = NoError /\ pipeline.throttles = {}))

\* a started pipeline that an operation left faulted, with nobody throttling
C1_Witness ==
    /\ started
    /\ last.op \in {"set_error"} \cup Walked
    /\ pipeline.error # NoError
    /\ pipeline.throttles = {}
    /\ ~is_ready(pipeline)

\* C2: an event is counted in, and an event or sub-event is handed to the
\* chain walker, only in a step that starts with the pipeline ready and its
\* error state clean; so nothing is consumed between a hard error and the
\* set_error(None) that clears it.
C2_ConsumesOnlyWhenReady ==
    [][(pipeline'.counter.event_in # pipeline.counter.event_in \/ last'.op \in Walked)
            => (is_ready(pipeline) /\ pipeline.error = NoError)]_vars

\* a generator expansion suspended between two sub-events of a faulted pipeline
C2_Witness ==
    /\ pipeline.error # NoError
    /\ \E s \in SourceIds : task[s].pc = "wait" /\ task[s].at = "generator"


\* C3: when a depth-0 processor raises and catch_error returns true, the
\* pipeline holds the error tuple (context, event, exception, timestamp) of
\* that event, is not ready, and has published error! and then not_ready!.
C3_HardErrorFaultsPipeline ==
    [][(last'.op = "enter" /\ last'.ret = "raise" /\ last'.exc = "ExcHard")
            => /\ pipeline'.error =
                      <<last'.context, Event(<<last'.src>>), "ExcHard", now'>>
               /\ last'.seen \subseteq last'.context
               /\ now' >= now
               /\ ~is_ready(pipeline')
               /\ pipeline'.published = <<"bspump.pipeline.error!",
                                          "bspump.pipeline.not_ready!">>]_vars

\* a processor raised a hard error on an event that came with a context of
\* the caller, after the clock had advanced
C3_Witness ==
    /\ last.op = "enter" /\ last.ret = "raise" /\ last.exc = "ExcHard"
    /\ pipeline.error # NoError
    /\ "caller" \in pipeline.error[1]
    /\ pipeline.error[4] > 0

\* C4: set_error(None) on a faulted pipeline clears the error, restarts
\* every source exactly once, publishes clear_error! and evaluates readiness:
\* afterwards the pipeline is ready exactly when nobody throttles it, and
\* ready! comes after clear_error!.
C4_ClearRestartsAndReevaluates ==
    [][(last'.op = "set_error" /\ last'.exc = None /\ pipeline.error # NoError)
            => /\ pipeline'.error = NoError
               /\ \A s \in pipeline.Sources : pipeline'.restarts[s] = 1
               /\ pipeline'.throttles = pipeline.throttles
               /\ is_ready(pipeline') <=> (pipeline'.throttles = {})
               /\ pipeline'.published =
                      IF pipeline.throttles = {}
                      THEN <<"bspump.pipeline.clear_error!", "bspump.pipeline.ready!">>
                      ELSE <<"bspump.pipeline.clear_error!">>]_vars

\* an error has just been cleared and the pipeline is ready again
C4_Witness ==
    /\ last.op = "set_error" /\ last.exc = None
    /\ \A s \in pipeline.Sources : pipeline.restarts[s] = 1
    /\ pipeline.counter.event_in > 0
    /\ is_ready(pipeline)

\* C5: when a depth-0 processor raises and catch_error returns false, the
\* warning counter grows by exactly one (the event had been counted in),
\* warning! is published, the error state stays clean, readiness does not
\* change, and the pipeline accepts the next process() call.
C5_SoftErrorWarns ==
    [][(last'.op = "enter" /\ last'.ret = "raise" /\ last'.exc = "ExcSoft")
            => /\ pipeline'.counter = [pipeline.counter EXCEPT !.warning = @ + 1,
                                                               !.event_in = @ + 1]
               /\ pipeline'.published = <<"bspump.pipeline.warning!">>
               /\ pipeline.error = NoError /\ pipeline'.error = NoError
               /\ is_ready(pipeline) /\ is_ready(pipeline')
               /\ task'[last'.src].pc = "idle" /\ running' = 0
               /\ ~ProcessWaits(pipeline')]_vars

\* the second event of a run ended in a soft error
C5_Witness ==
    /\ last.op = "enter" /\ last.ret = "raise" /\ last.exc = "ExcSoft"
    /\ pipeline.counter.event_in = 2
    /\ pipeline.counter.warning > 0
    /\ is_ready(pipeline)

\* C6: a hard error raised by a processor while it handles a generator
\* sub-event leaves the pipeline in the error state and not ready.
C6_DeepErrorFaultsPipeline ==
    [][(last'.op = "subwalk" /\ last'.ret = "raise" /\ last'.exc = "ExcHard")
            => (pipeline'.error # NoError /\ ~is_ready(pipeline'))]_vars

\* C7: in a pipeline whose chain keeps the invariants of the data model,
\* when no process() call is under way, event.out + event.drop + the number
\* of events currently faulted equals event.in.
Faulted == IF pipeline.error # NoError /\ pipeline.error[2] # NoEvent THEN 1 ELSE 0

WellFormed(levels) ==
    \A d \in 1..Len(levels) :
        /\ levels[d] # <<>>
        /\ \A i \in 1..Len(levels[d]) :
              levels[d][i] = (IF i < Len(levels[d]) THEN "Processor"
                             ELSE IF d < Len(levels) THEN "Generator" ELSE "Sink")

C7_EventAccounting ==
    (/\ WellFormed(pipeline.Processors)
     /\ running = 0
     /\ \A s \in SourceIds : task[s].pc = "idle")
        => pipeline.counter.event_out + pipeline.counter.event_drop + Faulted
               = pipeline.counter.event_in

\* C8: a processor that returns None makes the walker increment exactly one
\* counter: event.out if the walk is in the last chain level and the
\* processor is a Sink, event.drop in every other case.
C8_NoneCountsOnce ==
    [][(last'.op \in Walked /\ last'.ret = "none")
            => IF last'.depth + 1 = Len(pipeline.Processors) /\ last'.processor = "Sink"
               THEN /\ pipeline'.counter.event_out = pipeline.counter.event_out + 1
                    /\ pipeline'.counter.event_drop = pipeline.counter.event_drop
               ELSE /\ pipeline'.counter.event_drop = pipeline.counter.event_drop + 1
                    /\ pipeline'.counter.event_out = pipeline.counter.event_out]_vars

\* C9: when process() returns, every sub-event of every lazy sequence that
\* ended a walk above the last chain level has been walked at the next depth.
C9_SubEventsAllWalked ==
    (last.returned /\ Len(pipeline.Processors) > 2) => ~last.orphaned

\* C10: no processing changes the base context of the pipeline, and the
\* context a sub-event is walked with never holds a key that a processor
\* stored while handling a sibling sub-event.
C10_ContextIsolation ==
    [][/\ pipeline'.context = pipeline.context
       /\ last'.op = "subwalk" => ContextKey(1) \notin last'.seen]_vars

\* a sub-event is walked after a sibling stored a key, under a context that
\* holds the key of a depth-0 processor and the keys of the caller
C10_Witness ==
    /\ last.op = "subwalk"
    /\ last.wrote
    /\ {ContextKey(0), "caller"} \subseteq last.seen


\* C11: from every state of the pipeline, before start() too, throttle(x)
\* followed by throttle(x, False) for a token x that was not in the throttle
\* set leaves is_ready() as it was.
C11_ThrottlePairKeepsReadiness ==
    [][(/\ last'.op = "throttles"
        /\ last'.calls = <<TRUE, FALSE>>
        /\ last'.who \notin pipeline.throttles)
            => (is_ready(pipeline') <=> is_ready(pipeline))]_vars

\* C12: on a ready pipeline, throttle(x) twice followed by one
\* throttle(x, False) leaves the pipeline throttled by x and not ready.
C12_DoubleThrottleSingleRelease ==
    [][(/\ last'.op = "throttles"
        /\ last'.calls = <<TRUE, TRUE, FALSE>>
        /\ is_ready(pipeline))
            => (last'.who \in pipeline'.throttles /\ ~is_ready(pipeline'))]_vars

\* C13: throttle(who, False) for a token that is not in the throttle set
\* returns without an exception and leaves the throttle set as it was.
C13_ReleaseOfAbsentToken ==
    [][(/\ last'.op = "throttle"
        /\ last'.calls = <<FALSE>>
        /\ last'.who \notin pipeline.throttles)
            => (last'.exc = None /\ pipeline'.throttles = pipeline.throttles)]_vars

\* C14: a task never gets chillout_trigger process() calls in a row through
\* without giving the event loop back in one of them.
C14_ChilloutYields ==
    \A s \in SourceIds : task[s].streak < chillout_trigger

\* C15: a process() call that is suspended in ready() leaves the suspension
\* only by resuming: it counts its event in and walks the chain.
Suspended(s) == task[s].pc \in {"wait", "chill"} /\ task[s].at = "process"

C15_SuspendedPusherResumes ==
    [][\A s \in SourceIds :
          Suspended(s) => (Suspended(s)' \/ (last'.op = "enter" /\ last'.src = s))]_vars

\* C15 as amended: a suspended process() call leaves the suspension only by
\* resuming or by the restart of its source, and while the pipeline is ready
\* it does not stay suspended.
C15_SuspendedPusherResumesOrRestarts ==
    /\ [][\A s \in SourceIds :
             Suspended(s) => \/ Suspended(s)'
                             \/ last'.op = "enter" /\ last'.src = s
                             \/ pipeline'.restarts[s] > 0]_vars
    /\ \A s \in SourceIds :
          (Suspended(s) /\ is_ready(pipeline))
              ~> (~Suspended(s) \/ ~is_ready(pipeline))

C15_Witness ==
    /\ last.op = "enter"
    /\ last.resumed
    /\ last.ret = "none"
    /\ pipeline.counter.event_out > 0

\* C16: with a sink that throttles on entry and releases on exit and sources
\* that submit bursts, the sink is never invoked while an invocation of it is
\* in progress (its token is in the throttle set), and when every submitted
\* event has been handled event.in = event.out.
Quiescent == running = 0 /\ \A s \in SourceIds : task[s].pc = "idle"

C16_BurstThroughThrottlingSink ==
    [][/\ (last'.op \in Walked /\ last'.processor = "Sink")
            => "sink" \notin pipeline.throttles
       /\ Quiescent' => pipeline'.counter.event_in = pipeline'.counter.event_out]_vars

\* the whole burst went through, its last event after waiting for the sink
C16_Witness ==
    /\ Quiescent
    /\ last.op = "enter" /\ last.resumed /\ last.processor = "Sink"
    /\ pipeline.counter.event_in = MaxEvents
    /\ pipeline.counter.event_out = MaxEvents

\* C17: the hits of a cycle enter the chain in the order the cycle produces
\* them: the hit handed to process() is the one after the hits that entered,
\* the hit being expanded is the last one that entered, and no sub-event of
\* an earlier hit is left to walk when the next hit is handed over.
C17_ProductionOrder ==
    \A s \in SourceIds :
        task[s].pc # "idle" =>
            /\ task[s].owed = 0
            /\ task[s].hit = task[s].entered + (IF task[s].at = "process" THEN 1 ELSE 0)

\* the second hit of a cycle enters after its call was suspended, and its
\* sub-events are walked while another source waits with an event of its own
C17_Witness ==
    /\ last.op = "subwalk"
    /\ \E s \in SourceIds :
          /\ last.src = s
          /\ task[s].hit = 2 /\ task[s].at = "generator" /\ task[s].next > 1
          /\ \E o \in SourceIds \ {s} : task[o].pc = "wait" /\ task[o].at = "process"
    /\ pipeline.chillout_counter > 0

\* ---------------------------------------------------------------- service
Registry(sv) == <<sv.Pipelines, sv.Connections, sv.Lookups>>

\* the namespace an add operation registers in, as an index of Registry
Namespace(op) ==
    CASE op = "add_pipeline" -> 1 [] op = "add_connection" -> 2 [] op = "add_lookup" -> 3

\* C18: add_pipeline, add_connection and add_lookup called with an Id that
\* is registered in the same namespace raise an error and leave the three
\* registries as they were, so the object registered first stays; called
\* with an Id that is not registered there they register the object and
\* change nothing in the other two namespaces, whatever is registered there.
C18_DuplicateIdRejected ==
    [][service'.out.op \in {"add_pipeline", "add_connection", "add_lookup"} =>
         LET id == service'.out.id
             k == Namespace(service'.out.op)
         IN IF id \in DOMAIN Registry(service)[k]
            THEN /\ service'.out.exc # None
                 /\ Registry(service') = Registry(service)
            ELSE /\ service'.out.exc = None
                 /\ DOMAIN Registry(service')[k] = DOMAIN Registry(service)[k] \cup {id}
                 /\ Registry(service')[k][id] = service'.out.n
                 /\ \A j \in 1..3 : \A i \in DOMAIN Registry(service)[j] :
                        Registry(service')[j][i] = Registry(service)[j][i]
                 /\ \A j \in (1..3) \ {k} :
                        DOMAIN Registry(service')[j] = DOMAIN Registry(service)[j]]_vars

\* a lookup was refused because another object holds its Id, an Id that is
\* registered among the pipelines and the connections as well
C18_Witness ==
    /\ service.out.op = "add_lookup"
    /\ service.out.exc # None
    /\ service.Lookups[service.out.id] # service.out.n
    /\ service.out.id \in DOMAIN service.Pipelines
    /\ service.out.id \in DOMAIN service.Connections

\* C19: when the start of a pipeline is observed (its start() was called by
\* the service, bspump.pipeline.start! was published), initialize() is past
\* its await and the update task of every lookup that was registered when
\* initialize() was called has finished.
C19_LookupsLoadedBeforeStart ==
    (started \/ service.started # {}) =>
        /\ service.phase = "done"
        /\ service.updates \subseteq service.loaded

\* pipelines were started by a service that had several lookups to load
C19_Witness ==
    /\ started
    /\ ThePipeline \in service.started
    /\ Cardinality(service.updates) > 1
    /\ service.updates = service.loaded

\* C20: locate(address) splits the address at its first dot. An address
\* without a dot names the pipeline registered under it; a tail that begins
\* with '*' names the source whose Id is the rest of the tail; any other tail
\* names the first processor, level by level and in the order of the level,
\* whose Id is the tail. The result is None where the pipeline is not
\* registered or has no such stage, and the registries stay as they were.
C20_LocateResolves ==
    [][service'.out.op = "locate" =>
         LET a == service'.out.id
             r == service'.out.ret
             dots == {i \in 1..Len(a) : a[i] = "."}
             first == CHOOSE i \in dots : \A j \in dots : i <= j
             head == IF dots = {} THEN a ELSE SubSeq(a, 1, first - 1)
             tail == SubSeq(a, first + 1, Len(a))
             n == service.Pipelines[head]
             sources == {i \in 1..Len(SourcesOf(n)) : SourcesOf(n)[i] = Tail(tail)}
             places == UNION {{<<l, i>> : i \in 1..Len(ProcessorsOf(n)[l])} :
                                 l \in 1..Len(ProcessorsOf(n))}
             processors == {q \in places : ProcessorsOf(n)[q[1]][q[2]] = tail}
         IN /\ Registry(service') = Registry(service)
            /\ IF head \notin DOMAIN service.Pipelines THEN r = Nothing
               ELSE IF dots = {} THEN r = Located("pipeline", n, 0, 0)
               ELSE IF tail # <<>> /\ tail[1] = "*"
                    THEN IF sources = {} THEN r = Nothing
                         ELSE r.kind = "source" /\ r.n = n /\ r.idx \in sources
               ELSE IF processors = {} THEN r = Nothing
                    ELSE /\ r.kind = "processor" /\ r.n = n
                         /\ <<r.level, r.idx>> \in processors
                         /\ \A q \in processors :
                                r.level < q[1] \/ (r.level = q[1] /\ r.idx <= q[2])]_vars

\* an address with two dots located a processor of the second level
C20_Witness ==
    /\ service.out.op = "locate"
    /\ service.out.ret.kind = "processor"
    /\ service.out.ret.level = 2
    /\ Cardinality({i \in 1..Len(service.out.id) : service.out.id[i] = "."}) = 2


\* ----------------------------------------------------- builder and walker
\* C21: every pipeline build() returns for keeps the invariants of the data
\* model: no level is empty, a Sink is the last processor of the last level
\* and stands nowhere else, a Generator is the last processor of every other
\* level and stands nowhere else. (A chain that breaks them is refused when
\* the pipeline is constructed, so no pipeline exists for it.)
C21_BuilderEnforcesChainInvariants ==
    \A d \in 1..Len(pipeline.Processors) :
        LET level == pipeline.Processors[d]
            terminal == d = Len(pipeline.Processors)
        IN /\ level # <<>>
           /\ \A i \in 1..Len(level) :
                 /\ level[i] = "Sink" <=> (terminal /\ i = Len(level))
                 /\ level[i] = "Generator" <=> (~terminal /\ i = Len(level))

\* C22: when the walker has gone through every processor of the last chain
\* level and still holds an event, a lazy sequence included, the pipeline
\* holds a ProcessingError and is not ready.
C22_UnconsumedEventFaultsPipeline ==
    [][(/\ last'.op \in Walked
        /\ last'.depth + 1 = Len(pipeline.Processors)
        /\ last'.stage > Len(pipeline.Processors[last'.depth + 1])
        /\ last'.ret # "none")
            => (/\ pipeline'.error # NoError
                /\ pipeline'.error[3] = "ProcessingError"
                /\ ~is_ready(pipeline'))]_vars



\* ------------------------------------------------- readiness and set_error
IsReadinessMessage(m) == m \in {"bspump.pipeline.ready!", "bspump.pipeline.not_ready!"}

\* the readiness messages an operation published, in their order
ReadinessMessages(p) == SelectSeq(p.published, IsReadinessMessage)

\* C24: the readiness messages of every operation (start, throttle, several
\* throttle calls in a row, set_error, a walk of the chain) alternate and
\* start with the opposite of what is_ready() was: with ready! on a pipeline
\* that was not ready, as it is after construction. is_ready() has changed
\* exactly if the last of them says so, and the duty cycle value 'ready'
\* equals is_ready() after the operation.
C24_ReadinessEdgeTriggered ==
    [][LET msgs == ReadinessMessages(pipeline')
           Says(k) == msgs[k] = "bspump.pipeline.ready!"
       IN /\ \A k \in 1..Len(msgs) :
                Says(k) = (IF k = 1 THEN ~is_ready(pipeline) ELSE ~Says(k - 1))
          /\ is_ready(pipeline') = (IF msgs = <<>> THEN is_ready(pipeline)
                                                   ELSE Says(Len(msgs)))
          /\ pipeline'.dutycycle = is_ready(pipeline')]_vars

\* one operation made a ready pipeline not ready and ready again
C24_Witness ==
    /\ ReadinessMessages(pipeline) =
          <<"bspump.pipeline.not_ready!", "bspump.pipeline.ready!">>
    /\ is_ready(pipeline) /\ pipeline.dutycycle


\* C25: set_error leaves the error counter alone. Called from outside, a
\* soft error adds one to the warning counter and changes no other counter;
\* a hard error and a reset change no counter. Called by the walker, where
\* process() has counted the event in, it adds one warning for a soft error
\* and nothing else.
C25_SetErrorLeavesErrorCounter ==
    [][/\ last'.op = "set_error" =>
              pipeline'.counter =
                  IF last'.exc # None /\ ~CatchError(last'.exc, NoEvent)
                  THEN [pipeline.counter EXCEPT !.warning = @ + 1]
                  ELSE pipeline.counter
       /\ (last'.op \in Walked /\ last'.ret = "raise") =>
              pipeline'.counter =
                  [pipeline.counter EXCEPT
                      !.event_in = IF last'.op = "enter" THEN @ + 1 ELSE @,
                      !.warning = IF last'.exc = "ExcSoft" /\ last'.depth = 0
                                  THEN @ + 1 ELSE @]]_vars

\* a hard error was set on a pipeline that had counted a warning
C25_Witness ==
    /\ last.op = "set_error" /\ last.exc = "ExcHard"
    /\ pipeline.error # NoError /\ pipeline.error[3] = "ExcHard"
    /\ pipeline.counter.warning > 0
    /\ pipeline.counter.error = 0

\* C26: set_error(context, event, None) on a pipeline that holds no error
\* does nothing: no source is restarted, no task is touched, nothing is
\* published, and error state, throttle set, readiness and counters stay.
C26_ResetOfCleanPipelineIsNoOp ==
    [][(last'.op = "set_error" /\ last'.exc = None /\ pipeline.error = NoError)
            => /\ pipeline' = Begin(pipeline)
               /\ pipeline'.published = <<>>
               /\ \A s \in SourceIds : pipeline'.restarts[s] = 0
               /\ task' = task]_vars

\* set_error(None) was called on a clean pipeline that is throttled and has
\* a process() call waiting
C26_Witness ==
    /\ last.op = "set_error" /\ last.exc = None
    /\ pipeline.error = NoError /\ pipeline.published = <<>>
    /\ pipeline.throttles # {}
    /\ \E s \in SourceIds : task[s].pc = "wait"


\* C27: a walk of the chain, at depth 0 or for a sub-event, by any source,
\* starts on a pipeline whose error state is clean: so it is when the walker
\* calls set_error (for an exception a depth-0 processor raised, or for an
\* event that no Sink consumed), and a walk never replaces an error tuple
\* that is stored.
SetsError(obs) ==
    /\ obs.op \in Walked /\ obs.ret = "raise"
    /\ obs.exc = "ProcessingError" \/ (obs.depth = 0 /\ obs.exc \in Exceptions)

C27_WalkerSetsErrorOnCleanPipeline ==
    [][/\ last'.op \in Walked => pipeline.error = NoError
       /\ pipeline.error # NoError =>
              pipeline'.error = pipeline.error \/ last'.op = "set_error"]_vars

\* the walker stored a hard error while the process() call of another source
\* was under way, on a pipeline that had been faulted and cleared before
C27_Witness ==
    /\ SetsError(last) /\ last.exc # "ExcSoft"
    /\ pipeline.error # NoError
    /\ \E s \in SourceIds : s # last.src /\ task[s].pc # "idle"



\* ---------------------------------------------------------------- sessions
\* C28: whatever was added, deactivated and rebuilt, no two sessions of
\* RowMap share a row, RevRowMap maps the rows of RowMap back to their
\* sessions and nothing else, every row of RowMap is a row of Sessions, the
\* one that was created for the session, and get_session of a session of
\* RowMap returns that row.
C28_RowMapsStayConsistent ==
    LET a == analyzer
    IN /\ \A i, j \in 1..Len(a.RowMap) : a.RowMap[i][2] = a.RowMap[j][2] => i = j
       /\ Keys(a.RevRowMap) = {a.RowMap[i][2] : i \in 1..Len(a.RowMap)}
       /\ \A id \in Keys(a.RowMap) :
             /\ Item(a.RevRowMap, Item(a.RowMap, id)) = id
             /\ Item(a.RowMap, id) < Len(a.Sessions)
             /\ a.Sessions[Item(a.RowMap, id) + 1] = id
       /\ (a.out.op = "get_session" /\ a.out.id \in Keys(a.RowMap)) =>
             (a.out.exc = None /\ a.out.ret = a.out.id)



\* --------------------------------------------------------------------- tee
\* C23: a walk of a chain that begins with a TeeProcessor puts exactly one
\* deep copy of the event on the queue of the Internal Source the
\* TeeProcessor targets, and hands the event itself to the next stage: the
\* walk gets to the Sink of the pipeline with it.
C23_TeeForwardsCopy ==
    [][(last'.op = "enter" /\ pipeline.Processors[1][1] = "Tee")
            => /\ pipeline'.tee.Queue =
                      Append(pipeline.tee.Queue, DeepCopy(Event(<<last'.src>>)))
               /\ last'.event = Event(<<last'.src>>)
               /\ last'.stage = 2 /\ last'.processor = "Sink"]_vars


====
